---- MODULE Spec2Model ----
(***************************************************************************)
(* Model of YieldFarmingClient (src/sample-example-web3.rs): a client      *)
(* built from an RPC url, a contract address and ABI bytes, whose methods  *)
(* each forward one call to a JSON-RPC node.  The node, the pool contract  *)
(* and the transport are the environment of the client; concurrent callers *)
(* are the tasks of Tasks, each awaiting at most one call at a time.       *)
(***************************************************************************)
EXTENDS Integers, Sequences, FiniteSets, TLC

\* ---- bounds -------------------------------------------------------------
MaxTx == 1          \* transactions the node accepts in one run
MaxAbiLen == 3      \* length of the ABI byte sequences tried by new

Tasks == {"t1", "t2"}
Accounts == {"a1", "a2"}
Amounts == {1}
Hashes == 1..MaxTx
ContractAddrs == {"pool", "nocode"}   \* a contract is deployed at "pool" only
Urls == {"http://node", "not a url"}
AbiTokens == {"[", "]", ",", "fns"}

NoAccount == "none"
TxFns == {"deposit", "withdraw", "claimRewards"}
ViewFns == {"balanceOf", "pendingRewards", "totalValueLocked", "getCurrentAPY"}
TxMethods == {"deposit", "withdraw", "claim_rewards"}
QueryMethods == {"get_staked_balance", "get_pending_rewards",
                 "get_total_value_locked", "get_current_apy"}
ChainMethods == {"wait_for_transaction", "get_latest_block"}
Methods == TxMethods \cup QueryMethods \cup ChainMethods

VARIABLES
    client,     \* the constructed YieldFarmingClient, or the failure of new
    ctor,       \* the arguments new was called with
    pc, op,     \* per caller: where its call stands, and the call
    req, nreq,  \* per caller: the request in flight, requests sent by the call
    resp,       \* per caller: the node's response, not yet consumed
    result,     \* per caller: what the call returned
    late,       \* per caller: the hash had a receipt when the call in flight began
    txs, receipt, staked, rewards, head   \* the node and the pool contract

clientVars == <<client, ctor>>
taskVars == <<pc, op, req, nreq, resp, result, late>>
chainVars == <<txs, receipt, staked, rewards, head>>
vars == <<client, ctor, pc, op, req, nreq, resp, result, late,
          txs, receipt, staked, rewards, head>>

\* ---- records ------------------------------------------------------------
NoOp == [m |-> "none", amount |-> 0, account |-> NoAccount, hash |-> 0]
NoReq == [rpc |-> "none", fn |-> "-", args |-> <<>>, from |-> NoAccount,
          to |-> "-", hash |-> 0]
NoResp == [kind |-> "none", v |-> 0, st |-> "-"]
NoResult == [kind |-> "none", v |-> 0, st |-> "-"]

Ok(kind, v, st) == [kind |-> kind, v |-> v, st |-> st]
Err(why) == [kind |-> "err", v |-> 0, st |-> why]
Panic == [kind |-> "panic", v |-> 0, st |-> "unwrap on None"]

\* ---- construction -------------------------------------------------------
AbiInputs == UNION {[1..n -> AbiTokens] : n \in 0..MaxAbiLen}

\* Http::new(rpc_url)? : only the format of the url is examined
HttpNew(url) == url = "http://node"

\* a parser that does not look at the closing bracket
AbiWellFormedOpenOnly(bytes) ==
    /\ Len(bytes) >= 2
    /\ bytes[1] = "["
    /\ Len(bytes) > 2 => Len(bytes) % 2 = 1
    /\ \A i \in 2..(Len(bytes) - 1) :
          bytes[i] = IF i % 2 = 0 THEN "fns" ELSE ","

\* ContractABI::load(contract_abi)? : a JSON array of function descriptors,
\* "fns" standing for the descriptors of the seven pool functions
AbiWellFormed(bytes) ==
    /\ Len(bytes) >= 2
    /\ bytes[1] = "["
    /\ bytes[Len(bytes)] = "]"
    /\ Len(bytes) > 2 => Len(bytes) % 2 = 1
    /\ \A i \in 2..(Len(bytes) - 1) :
          bytes[i] = IF i % 2 = 0 THEN "fns" ELSE ","

AbiLoad(bytes) ==
    IF \E i \in 1..Len(bytes) : bytes[i] = "fns" THEN TxFns \cup ViewFns ELSE {}

NoCtor == [url |-> "-", address |-> "-", abi |-> <<>>]

NoClient == [status |-> "none", abi |-> {}, address |-> "-"]

new(rpc_url, contract_address, contract_abi) ==
    IF ~HttpNew(rpc_url) THEN [status |-> "err", abi |-> {}, address |-> "-"]
    ELSE IF ~AbiWellFormed(contract_abi)
         THEN [status |-> "err", abi |-> {}, address |-> "-"]
         ELSE [status |-> "ok", abi |-> AbiLoad(contract_abi),
               address |-> contract_address]

\* ---- the two primitives of the contract binding -------------------------
\* a binding that submits without looking the function up in the ABI
ContractCallUnchecked(self, func, params, from) ==
    [send |-> TRUE,
     req |-> [rpc |-> "eth_sendTransaction", fn |-> func, args |-> params,
              from |-> from, to |-> self.address, hash |-> 0]]

\* contract.call(func, params, options).from(account): a transaction
ContractCall(self, func, params, from) ==
    IF func \in self.abi
    THEN [send |-> TRUE,
          req |-> [rpc |-> "eth_sendTransaction", fn |-> func, args |-> params,
                   from |-> from, to |-> self.address, hash |-> 0]]
    ELSE [send |-> FALSE, req |-> NoReq]

\* contract.query(func, params, None, Options::default(), None): a read
ContractQuery(self, func, params) ==
    IF func \in self.abi
    THEN [send |-> TRUE,
          req |-> [rpc |-> "eth_call", fn |-> func, args |-> params,
                   from |-> NoAccount, to |-> self.address, hash |-> 0]]
    ELSE [send |-> FALSE, req |-> NoReq]

\* ---- the facade ---------------------------------------------------------
deposit(self, amount, account) == ContractCall(self, "deposit", <<amount>>, account)

\* withdraw wired to the deposit function
withdraw_as_deposit(self, amount, account) ==
    ContractCall(self, "deposit", <<amount>>, account)

withdraw(self, amount, account) == ContractCall(self, "withdraw", <<amount>>, account)

claim_rewards(self, account) == ContractCall(self, "claimRewards", <<>>, account)

\* the balance read issued as a transaction instead of a query
get_staked_balance_tx(self, account) ==
    ContractCall(self, "balanceOf", <<account>>, account)

get_staked_balance(self, account) == ContractQuery(self, "balanceOf", <<account>>)

\* the rewards read wired to the balance function
get_pending_rewards_swapped(self, account) ==
    ContractQuery(self, "balanceOf", <<account>>)

get_pending_rewards(self, account) == ContractQuery(self, "pendingRewards", <<account>>)

get_total_value_locked(self) == ContractQuery(self, "totalValueLocked", <<>>)

get_current_apy(self) == ContractQuery(self, "getCurrentAPY", <<>>)

wait_for_transaction(self, tx_hash) ==
    [send |-> TRUE,
     req |-> [rpc |-> "eth_getTransactionReceipt", fn |-> "-", args |-> <<>>,
              from |-> NoAccount, to |-> "-", hash |-> tx_hash]]

get_latest_block(self) ==
    [send |-> TRUE,
     req |-> [rpc |-> "eth_getBlockByNumber", fn |-> "-", args |-> <<>>,
              from |-> NoAccount, to |-> "-", hash |-> 0]]

Dispatch(self, o) ==
    CASE o.m = "deposit" -> deposit(self, o.amount, o.account)
      [] o.m = "withdraw" -> withdraw(self, o.amount, o.account)
      [] o.m = "claim_rewards" -> claim_rewards(self, o.account)
      [] o.m = "get_staked_balance" -> get_staked_balance(self, o.account)
      [] o.m = "get_pending_rewards" -> get_pending_rewards(self, o.account)
      [] o.m = "get_total_value_locked" -> get_total_value_locked(self)
      [] o.m = "get_current_apy" -> get_current_apy(self)
      [] o.m = "wait_for_transaction" -> wait_for_transaction(self, o.hash)
      [] OTHER -> get_latest_block(self)

\* the callers: one makes any call, the other reads beside it
Role == [t \in Tasks |-> IF t = "t1" THEN Methods ELSE QueryMethods]

\* the calls a caller can make
Ops ==
    {[m |-> m, amount |-> n, account |-> a, hash |-> 0] :
        m \in {"deposit", "withdraw"}, n \in Amounts, a \in Accounts}
    \cup {[m |-> m, amount |-> 0, account |-> a, hash |-> 0] :
        m \in {"claim_rewards", "get_staked_balance", "get_pending_rewards"},
        a \in Accounts}
    \cup {[m |-> m, amount |-> 0, account |-> NoAccount, hash |-> 0] :
        m \in {"get_total_value_locked", "get_current_apy", "get_latest_block"}}
    \cup {[m |-> "wait_for_transaction", amount |-> 0, account |-> NoAccount,
           hash |-> h] : h \in Hashes}

\* ---- what each method makes of the awaited response ---------------------
\* `.await?` then Ok(result), lines 35-37, 47-49, 59-61
TxOutcome(r) ==
    IF r.kind = "error" THEN Err(r.st) ELSE Ok("ok_hash", r.v, "-")

\* `.await?` then Ok(result), lines 68-70, 77-79, 86-88, 95-97
QueryOutcome(r) ==
    IF r.kind = "error" THEN Err(r.st)
    ELSE IF r.kind = "empty" THEN Err("decode")
    ELSE Ok("ok_value", r.v, "-")

\* a receipt passed on without its status
WaitOutcomeStatusLost(r) ==
    IF r.kind = "error" THEN Err(r.st)
    ELSE IF r.kind = "receipt" THEN Ok("ok_receipt", r.v, "success")
    ELSE Err("Transaction receipt not found")

\* lines 104-109
WaitOutcome(r) ==
    IF r.kind = "error" THEN Err(r.st)
    ELSE IF r.kind = "receipt" THEN Ok("ok_receipt", r.v, r.st)
    ELSE Err("Transaction receipt not found")

\* lines 116-121
BlockOutcome(r) ==
    IF r.kind = "error" THEN Err(r.st)
    ELSE IF r.kind = "block" THEN Ok("ok_block", r.v, "-")
    ELSE IF r.kind = "block_nonum" THEN Panic
    ELSE Err("Latest block not found")

Outcome(m, r) ==
    IF m \in TxMethods THEN TxOutcome(r)
    ELSE IF m \in QueryMethods THEN QueryOutcome(r)
    ELSE IF m = "wait_for_transaction" THEN WaitOutcome(r)
    ELSE BlockOutcome(r)

\* a submission that also waits for the transaction to be mined
AwaitReadyMined(r, rc) ==
    /\ r.kind # "none"
    /\ r.kind = "hash" => rc[r.v] # "none"

\* the suspended call resumes as soon as the node's response is there
AwaitReady(r, rc) == r.kind # "none"

\* ---- the pool contract and the node -------------------------------------
RECURSIVE SumOver(_, _)
SumOver(f, S) ==
    IF S = {} THEN 0
    ELSE LET a == CHOOSE x \in S : TRUE IN f[a] + SumOver(f, S \ {a})

View(fn, args) ==
    CASE fn = "balanceOf" -> staked[args[1]]
      [] fn = "pendingRewards" -> rewards[args[1]]
      [] fn = "totalValueLocked" -> SumOver(staked, Accounts)
      [] OTHER -> 100 \div (1 + SumOver(staked, Accounts))

\* the node keeps the content of a transaction until it is mined
MinedTx == [fn |-> "-", args |-> <<>>, from |-> NoAccount, to |-> "-"]

\* the effect of a mined transaction: its status and the pool's new state
Exec(tx) ==
    IF tx.to # "pool"
    THEN [status |-> "success", staked |-> staked, rewards |-> rewards]
    ELSE IF tx.fn = "deposit"
    THEN [status |-> "success",
          staked |-> [staked EXCEPT ![tx.from] = @ + tx.args[1]],
          rewards |-> rewards]
    ELSE IF tx.fn = "withdraw"
    THEN IF staked[tx.from] >= tx.args[1]
         THEN [status |-> "success",
               staked |-> [staked EXCEPT ![tx.from] = @ - tx.args[1]],
               rewards |-> rewards]
         ELSE [status |-> "failed", staked |-> staked, rewards |-> rewards]
    ELSE [status |-> "success", staked |-> staked,
          rewards |-> [rewards EXCEPT ![tx.from] = 0]]

Init ==
    /\ client = NoClient
    /\ ctor = NoCtor
    /\ late = [t \in Tasks |-> FALSE]
    /\ pc = [t \in Tasks |-> "idle"]
    /\ op = [t \in Tasks |-> NoOp]
    /\ req = [t \in Tasks |-> NoReq]
    /\ nreq = [t \in Tasks |-> 0]
    /\ resp = [t \in Tasks |-> NoResp]
    /\ result = [t \in Tasks |-> NoResult]
    /\ txs = <<>>
    /\ receipt = [h \in Hashes |-> "none"]
    /\ staked = [a \in Accounts |-> IF a = "a1" THEN 1 ELSE 0]
    /\ rewards = [a \in Accounts |-> IF a = "a1" THEN 3 ELSE 0]
    /\ head = 0

\* YieldFarmingClient::new, called once with any url, address and ABI bytes
New ==
    /\ client.status = "none"
    /\ \E rpc_url \in Urls, contract_address \in ContractAddrs, contract_abi \in AbiInputs :
          /\ client' = new(rpc_url, contract_address, contract_abi)
          /\ ctor' = [url |-> rpc_url, address |-> contract_address,
                      abi |-> contract_abi]
    /\ UNCHANGED <<taskVars, chainVars>>

\* a caller starts one method: the request is built and sent, or the lookup
\* of the function in the ABI fails and the call returns at once
Invoke(t, o) ==
    /\ client.status = "ok"
    /\ pc[t] \in {"idle", "done"}
    /\ o.m \in Role[t]
    /\ LET d == Dispatch(client, o) IN
         /\ op' = [op EXCEPT ![t] = o]
         /\ late' = [late EXCEPT ![t] = d.send /\ o.m = "wait_for_transaction"
                                          /\ receipt[o.hash] # "none"]
         /\ resp' = [resp EXCEPT ![t] = NoResp]
         /\ IF d.send
            THEN /\ req' = [req EXCEPT ![t] = d.req]
                 /\ nreq' = [nreq EXCEPT ![t] = 1]
                 /\ pc' = [pc EXCEPT ![t] = "sent"]
                 /\ result' = [result EXCEPT ![t] = NoResult]
            ELSE /\ req' = [req EXCEPT ![t] = NoReq]
                 /\ nreq' = [nreq EXCEPT ![t] = 0]
                 /\ pc' = [pc EXCEPT ![t] = "done"]
                 /\ result' = [result EXCEPT ![t] = Err("function not found")]
    /\ UNCHANGED <<clientVars, chainVars>>

Waiting(t) == pc[t] = "sent" /\ resp[t].kind = "none"

\* the node accepts a submitted transaction and answers with its hash
NodeAccept(t) ==
    /\ Waiting(t)
    /\ req[t].rpc = "eth_sendTransaction"
    /\ Len(txs) < MaxTx
    /\ txs' = Append(txs, [fn |-> req[t].fn, args |-> req[t].args,
                           from |-> req[t].from, to |-> req[t].to])
    /\ resp' = [resp EXCEPT ![t] = [kind |-> "hash", v |-> Len(txs) + 1, st |-> "-"]]
    /\ UNCHANGED <<clientVars, pc, op, req, nreq, result, late, receipt, staked, rewards, head>>

\* the node rejects the submission
NodeReject(t) ==
    /\ Waiting(t)
    /\ req[t].rpc = "eth_sendTransaction"
    /\ resp' = [resp EXCEPT ![t] = [kind |-> "error", v |-> 0, st |-> "rejected"]]
    /\ UNCHANGED <<clientVars, pc, op, req, nreq, result, late, chainVars>>

\* the node evaluates a read against the current state of the contract
NodeCall(t) ==
    /\ Waiting(t)
    /\ req[t].rpc = "eth_call"
    /\ resp' = [resp EXCEPT ![t] =
                  IF req[t].to = "pool"
                  THEN [kind |-> "value", v |-> View(req[t].fn, req[t].args), st |-> "-"]
                  ELSE [kind |-> "empty", v |-> 0, st |-> "-"]]
    /\ UNCHANGED <<clientVars, pc, op, req, nreq, result, late, chainVars>>

\* the node looks the receipt up
NodeReceipt(t) ==
    /\ Waiting(t)
    /\ req[t].rpc = "eth_getTransactionReceipt"
    /\ resp' = [resp EXCEPT ![t] =
                  IF receipt[req[t].hash] = "none"
                  THEN [kind |-> "no_receipt", v |-> req[t].hash, st |-> "-"]
                  ELSE [kind |-> "receipt", v |-> req[t].hash,
                        st |-> receipt[req[t].hash]]]
    /\ UNCHANGED <<clientVars, pc, op, req, nreq, result, late, chainVars>>

\* the node answers with its head: a numbered block, a block whose number
\* field is absent, or no block
NodeBlock(t, k) ==
    /\ Waiting(t)
    /\ req[t].rpc = "eth_getBlockByNumber"
    /\ resp' = [resp EXCEPT ![t] =
                  [kind |-> k, v |-> IF k = "block" THEN head ELSE 0, st |-> "-"]]
    /\ UNCHANGED <<clientVars, pc, op, req, nreq, result, late, chainVars>>

\* the request fails in the transport
TransportFailure(t) ==
    /\ Waiting(t)
    /\ resp' = [resp EXCEPT ![t] = [kind |-> "error", v |-> 0, st |-> "transport"]]
    /\ UNCHANGED <<clientVars, pc, op, req, nreq, result, late, chainVars>>

\* a call that sends its request once more after a failure
CompleteRetry(t) ==
    /\ pc[t] = "sent"
    /\ AwaitReady(resp[t], receipt)
    /\ IF resp[t].kind = "error" /\ nreq[t] < 2
       THEN /\ nreq' = [nreq EXCEPT ![t] = @ + 1]
            /\ resp' = [resp EXCEPT ![t] = NoResp]
            /\ UNCHANGED <<clientVars, pc, op, req, result, late, chainVars>>
       ELSE /\ pc' = [pc EXCEPT ![t] = "done"]
            /\ result' = [result EXCEPT ![t] = Outcome(op[t].m, resp[t])]
            /\ late' = [late EXCEPT ![t] = FALSE]
            /\ op' = [op EXCEPT ![t] = [NoOp EXCEPT !.m = op[t].m, !.hash = op[t].hash]]
            /\ req' = [req EXCEPT ![t] = NoReq]
            /\ resp' = [resp EXCEPT ![t] = NoResp]
            /\ UNCHANGED <<clientVars, nreq, chainVars>>

\* the awaited future resolves and the method returns to its caller
Complete(t) ==
    /\ pc[t] = "sent"
    /\ AwaitReady(resp[t], receipt)
    /\ pc' = [pc EXCEPT ![t] = "done"]
    /\ result' = [result EXCEPT ![t] = Outcome(op[t].m, resp[t])]
    /\ late' = [late EXCEPT ![t] = FALSE]
    /\ op' = [op EXCEPT ![t] = [NoOp EXCEPT !.m = op[t].m, !.hash = op[t].hash]]
    /\ req' = [req EXCEPT ![t] = NoReq]
    /\ resp' = [resp EXCEPT ![t] = NoResp]
    /\ UNCHANGED <<clientVars, nreq, chainVars>>

\* a pending transaction is mined: its receipt appears, once and for all
Mine(h) ==
    /\ h \in 1..Len(txs)
    /\ receipt[h] = "none"
    /\ txs[h] # MinedTx
    /\ LET e == Exec(txs[h]) IN
         /\ receipt' = [receipt EXCEPT ![h] = e.status]
         /\ txs' = [txs EXCEPT ![h] = MinedTx]
         /\ staked' = e.staked
         /\ rewards' = e.rewards
    /\ head' = head + 1
    /\ UNCHANGED <<clientVars, taskVars>>

Next ==
    \/ New
    \/ \E t \in Tasks, o \in Ops : Invoke(t, o)
    \/ \E t \in Tasks : NodeAccept(t)
    \/ \E t \in Tasks : NodeReject(t)
    \/ \E t \in Tasks : NodeCall(t)
    \/ \E t \in Tasks : NodeReceipt(t)
    \/ \E t \in Tasks, k \in {"block", "block_nonum", "no_block"} : NodeBlock(t, k)
    \/ \E t \in Tasks : TransportFailure(t)
    \/ \E t \in Tasks : Complete(t)
    \/ \E h \in Hashes : Mine(h)

Spec == Init /\ [][Next]_vars

\* ---- properties ---------------------------------------------------------
Done(t) == pc[t] = "done"

\* C1: wait_for_transaction on a hash without receipt returns a not-yet-mined
\* result that is no error: the only error it ever returns is the transport's.
C1_NotYetMinedIsNoError ==
    \A t \in Tasks :
        (Done(t) /\ op[t].m = "wait_for_transaction" /\ result[t].kind = "err")
            => result[t].st = "transport"

\* C2: as soon as the node has answered a deposit, withdraw or claim_rewards
\* with the hash, the call can return, whether or not the hash has a receipt.
C2_ReturnsOnAcceptance ==
    \A t \in Tasks :
        (pc[t] = "sent" /\ op[t].m \in TxMethods /\ resp[t].kind = "hash")
            => ENABLED Complete(t)

\* a call has returned hash h and h is still pending
C2_ReturnedWhilePending ==
    \E t \in Tasks :
        /\ Done(t) /\ op[t].m \in TxMethods
        /\ result[t].kind = "ok_hash"
        /\ receipt[result[t].v] = "none"

\* C3 as stated: every invocation issues exactly one request to the node.
C3_ExactlyOneRequest == \A t \in Tasks : Done(t) => nreq[t] = 1

C3_AtMostOne ==
    \A t \in Tasks :
        /\ nreq[t] <= 1
        /\ Done(t) => (nreq[t] = 0 <=> result[t] = Err("function not found"))
        /\ (pc[t] # "idle" /\ op[t].m \in ChainMethods) => nreq[t] = 1

C3_ErrorsSurface ==
    \A t \in Tasks :
        /\ (pc[t] = "sent" /\ resp[t].kind = "error" /\ <<pc[t], resp[t]>>' # <<pc[t], resp[t]>>)
              => (pc'[t] = "done" /\ result'[t] = Err(resp[t].st) /\ nreq'[t] = nreq[t])
        /\ Len(txs') <= Len(txs) + 1

\* C3 amended: an invocation issues at most one request: none when the
\* function is missing from the ABI (the call fails at once), exactly one
\* otherwise; a failed request ends the call with that error, nothing is
\* sent again, and a step of the node submits at most one transaction.
C3_AtMostOneRequestNoRetry == []C3_AtMostOne /\ [][C3_ErrorsSurface]_vars

\* a rejected submission came back to the caller as an error after one request
C3_RejectionSurfaced ==
    \E t \in Tasks :
        /\ Done(t) /\ op[t].m \in TxMethods
        /\ result[t] = Err("rejected") /\ nreq[t] = 1

ReadMethods == QueryMethods \cup ChainMethods

TaskStep(t) ==
    <<pc[t], op[t], req[t], resp[t], result[t]>>' # <<pc[t], op[t], req[t], resp[t], result[t]>>

\* C4: no step of a read (the four queries, wait_for_transaction,
\* get_latest_block) sends a transaction or changes the chain, the submitted
\* transactions or the client.
C4_ReadsLeaveStateAlone ==
    [][\A t \in Tasks :
         (TaskStep(t) /\ op'[t].m \in ReadMethods)
            => /\ UNCHANGED <<client, ctor, chainVars>>
               /\ req'[t].rpc # "eth_sendTransaction"]_vars

\* the same read, made by both callers on a pool that holds a stake, gave
\* both the same value
C4_RepeatedRead ==
    /\ \A t \in Tasks :
          /\ Done(t) /\ op[t].m = "get_staked_balance"
          /\ result[t] = Ok("ok_value", 2, "-")
    /\ Len(txs) > 0

\* C5: get_latest_block ends with the block number or with an error, never
\* with a panic, whatever the node answers.
C5_LatestBlockNeverPanics ==
    \A t \in Tasks :
        (Done(t) /\ op[t].m = "get_latest_block")
            => result[t].kind \in {"ok_block", "err"}

\* C6: new with the ABI `[]` succeeds, and on that client every call of a
\* named function ends with the function-not-found error, without a request
\* and without a transaction.
C6_EmptyAbi ==
    (HttpNew(ctor.url) /\ ctor.abi = <<"[", "]">>)
        => /\ client.status = "ok"
           /\ client.address = ctor.address
           /\ txs = <<>>
           /\ \A t \in Tasks :
                 op[t].m \in TxMethods \cup QueryMethods
                    => /\ Done(t)
                       /\ result[t] = Err("function not found")
                       /\ nreq[t] = 0

C6_EmptyAbiCallFailed ==
    /\ ctor.abi = <<"[", "]">>
    /\ client.status = "ok"
    /\ \E t \in Tasks : Done(t) /\ op[t].m = "deposit" /\ result[t].kind = "err"
    /\ \E t \in Tasks : Done(t) /\ op[t].m = "get_current_apy" /\ result[t].kind = "err"

\* the well-formed ABI byte sequences: `[]`, or descriptors separated by
\* commas between brackets
RECURSIVE Listed(_)
Listed(n) == IF n = 1 THEN <<"fns">> ELSE Listed(n - 1) \o <<",", "fns">>

WellFormedAbis ==
    {<<"[", "]">>} \cup {<<"[">> \o Listed(n) \o <<"]">> : n \in 1..MaxAbiLen}

Quiet ==
    /\ txs = <<>>
    /\ \A t \in Tasks : pc[t] = "idle" /\ nreq[t] = 0 /\ req[t] = NoReq

C7_Outcome ==
    ctor # NoCtor =>
        /\ ctor.abi \notin WellFormedAbis => (client.status = "err" /\ Quiet)
        /\ (ctor.abi \in WellFormedAbis /\ ctor.url = "http://node")
              => (client.status = "ok" /\ client.address = ctor.address)

\* C7: new fails on every malformed ABI, leaving no client and no request
\* sent; on a valid url, address and ABI it succeeds, for a deployed contract
\* or not, and constructing changes nothing at the node.
C7_Construction ==
    []C7_Outcome /\ [][client' # client => UNCHANGED <<taskVars, chainVars>>]_vars

C7_MalformedAbiRejected ==
    /\ ctor.url = "http://node"
    /\ Len(ctor.abi) > 0
    /\ ctor.abi \notin WellFormedAbis
    /\ client.status = "err"

C8_Stable ==
    \A t \in Tasks :
        (Done(t) /\ result[t].kind = "ok_receipt")
            => (result[t].v = op[t].hash /\ receipt[op[t].hash] = result[t].st)

C8_Again ==
    \A t \in Tasks :
        (pc[t] = "sent" /\ late[t] /\ pc'[t] = "done" /\ resp[t].st # "transport")
            => result'[t] = Ok("ok_receipt", op[t].hash, receipt[op[t].hash])

\* C8: a receipt returned by wait_for_transaction carries the status the
\* node holds for that hash, that status never changes once set, and a call
\* begun when the hash has a receipt (so every call begun after a receipt
\* was returned) returns that receipt unless the transport fails.
C8_ReceiptStable ==
    /\ []C8_Stable
    /\ [][C8_Again]_vars
    /\ [][\A h \in Hashes : receipt[h] # "none" => receipt'[h] = receipt[h]]_vars

\* a call begun when the hash already had its failed receipt is answered
\* with that receipt
C8_SeenAgain ==
    \E t \in Tasks :
        /\ pc[t] = "sent" /\ late[t]
        /\ resp[t] = [kind |-> "receipt", v |-> op[t].hash, st |-> "failed"]

\* what a query returns when it runs alone against the current chain state
AloneAnswer(o) ==
    IF client.address # "pool" THEN [kind |-> "empty", v |-> 0, st |-> "-"]
    ELSE [kind |-> "value", st |-> "-",
          v |-> CASE o.m = "get_staked_balance" -> staked[o.account]
                  [] o.m = "get_pending_rewards" -> rewards[o.account]
                  [] o.m = "get_total_value_locked" -> SumOver(staked, Accounts)
                  [] OTHER -> 100 \div (1 + SumOver(staked, Accounts))]

OwnVars(t) == <<pc[t], op[t], req[t], nreq[t], resp[t], result[t], late[t]>>

\* C9: a query in flight beside other calls is answered with what it would
\* get alone on the chain state it reads, returns that answer, and no step
\* of one caller touches what another caller holds.
C9_QueriesIndependent ==
    [][\A t \in Tasks :
         /\ (op[t].m \in QueryMethods /\ pc[t] = "sent" /\ resp[t].kind = "none"
               /\ resp'[t].kind \notin {"none", "error"})
               => resp'[t] = AloneAnswer(op[t])
         /\ (op[t].m \in QueryMethods /\ pc[t] = "sent" /\ pc'[t] = "done"
               /\ resp[t].kind = "value")
               => result'[t] = Ok("ok_value", resp[t].v, "-")
         /\ OwnVars(t)' # OwnVars(t)
               => \A u \in Tasks \ {t} : OwnVars(u)' = OwnVars(u)]_vars

\* two different queries are answered at the same time, with different values
C9_TwoQueriesInFlight ==
    \E t, u \in Tasks :
        /\ pc[t] = "sent" /\ op[t].m = "get_staked_balance"
        /\ pc[u] = "sent" /\ op[u].m = "get_pending_rewards"
        /\ op[t].account = op[u].account
        /\ resp[t].kind = "value" /\ resp[u].kind = "value"
        /\ resp[t].v # resp[u].v

ExpectedFn(m) ==
    CASE m = "deposit" -> "deposit"
      [] m = "withdraw" -> "withdraw"
      [] m = "claim_rewards" -> "claimRewards"
      [] m = "get_staked_balance" -> "balanceOf"
      [] m = "get_pending_rewards" -> "pendingRewards"
      [] m = "get_total_value_locked" -> "totalValueLocked"
      [] OTHER -> "getCurrentAPY"

\* C10: the request a facade method sends names the contract function of its
\* operation, carries the amount or account it was given, and is sent as the
\* given account (a query has no sender).
C10_FacadeMapping ==
    \A t \in Tasks :
        (pc[t] = "sent" /\ op[t].m \in TxMethods \cup QueryMethods)
            => /\ req[t].fn = ExpectedFn(op[t].m)
               /\ req[t].to = client.address
               /\ req[t].rpc = IF op[t].m \in TxMethods THEN "eth_sendTransaction"
                               ELSE "eth_call"
               /\ req[t].from = IF op[t].m \in TxMethods THEN op[t].account
                                ELSE NoAccount
               /\ req[t].args =
                     IF op[t].m \in {"deposit", "withdraw"} THEN <<op[t].amount>>
                     ELSE IF op[t].m \in {"get_staked_balance", "get_pending_rewards"}
                     THEN <<op[t].account>>
                     ELSE <<>>

\* a withdraw is in flight beside a rewards query about the other account
C10_TwoInFlight ==
    /\ pc["t1"] = "sent" /\ op["t1"].m = "withdraw"
    /\ req["t1"].fn = "withdraw" /\ req["t1"].from = "a1"
    /\ pc["t2"] = "sent" /\ op["t2"].m = "get_pending_rewards"
    /\ req["t2"].fn = "pendingRewards" /\ req["t2"].args = <<"a2">>
====
